---- MODULE Spec2Model ----
(***************************************************************************)
(* Upload pipeline of the SeisHub event_based_data plug-in: the station    *)
(* and waveform POST mappers, the helpers of util.py they call, the five   *)
(* ebd_* tables and the managed data tree.                                 *)
(*                                                                         *)
(* A request is a process that walks through its handler: Receive (the     *)
(* parameter validation, the checksum test, the parsing and the tag test), *)
(* PickName and WriteFile (write_string_to_filesystem), then one Upsert    *)
(* and one Commit per channel or trace of the file, because the handlers   *)
(* call session.commit() inside the loop.  A session reads the committed   *)
(* tables; its own rows become visible to others at Commit, where the      *)
(* unique constraints of table_definitions.py are enforced.                *)
(*                                                                         *)
(* The tag attribute of a waveform row is modelled from its uses           *)
(* (waveform_mappers.py:147, :431 and util.py:98).                         *)
(***************************************************************************)
EXTENDS Integers, Sequences, FiniteSets, TLC

\* ------------------------------------------------------------------ bounds
MaxRequests == 2
MaxExternalWrites == 1

\* Channel blocks and fragments per RESP file given to the line scanner.
MaxBlocks == 3

\* --------------------------------------------------------------- constants
\* Python's None / SQL NULL; every real value of the model is >= 0.
None == -1
\* The "undefined" float of the SAC header.
iv == -12345

Events == {"e1", "e2"}
NoEvent == "None"
Tags == {"", "t"}
ExtNames == {"x1"}

\* ----------------------------------------------------- the uploaded files
\* What the external readers (obspy.xseed.Parser, obspy.read) and the RESP
\* scanner extract from each file content.  kind is the format the content
\* is readable as; chans are its channel entries or traces, in file order.
\* For a SAC trace lat..depth are the header values stla, stlo, stel, stdp.
Entry(net, sta, loc, cha, start, end, lat, lon, elev, depth) ==
    [net |-> net, sta |-> sta, loc |-> loc, cha |-> cha, start |-> start,
     end |-> end, lat |-> lat, lon |-> lon, elev |-> elev, depth |-> depth]

Catalog ==
    << \* 1: RESP file, one channel, the interval of the first channel of 2
       [kind |-> "RESP", size |-> 3, chans |->
          << Entry("N1", "ST1", "", "BHZ", 2, 3, None, None, None, None) >>],
       \* 2: dataless SEED, two channels with coordinates
       [kind |-> "SEED", size |-> 4, chans |->
          << Entry("N1", "ST1", "", "BHZ", 2, 3, 5, 6, 0, 0),
             Entry("N1", "ST1", "", "BHE", 2, 3, 5, 6, 0, 0) >>],
       \* 3: dataless SEED listing the same channel interval twice
       [kind |-> "SEED", size |-> 4, chans |->
          << Entry("N1", "ST1", "", "BHN", 4, 5, 5, 6, 0, 0),
             Entry("N1", "ST1", "", "BHN", 4, 5, 5, 6, 0, 0) >>],
       \* 4: dataless SEED listing the same open-ended channel twice
       [kind |-> "SEED", size |-> 5, chans |->
          << Entry("N1", "ST1", "", "BHN", 4, None, 5, 6, 0, 0),
             Entry("N1", "ST1", "", "BHN", 4, None, 5, 6, 0, 0) >>],
       \* 5: SAC file, one trace, station coordinates in the header
       [kind |-> "SAC", size |-> 6, chans |->
          << Entry("N1", "ST1", "", "BHE", 2, 4, 7, 8, 9, iv) >>],
       \* 6: MiniSEED file of the same channel and hour, two traces (a gap)
       [kind |-> "MSEED", size |-> 6, chans |->
          << Entry("N1", "ST1", "", "BHE", 3, 4, None, None, None, None),
             Entry("N1", "ST1", "", "BHE", 5, 6, None, None, None, None) >>],
       \* 7: MiniSEED file with two traces
       [kind |-> "MSEED", size |-> 7, chans |->
          << Entry("N1", "ST1", "", "BHZ", 2, 4, None, None, None, None),
             Entry("N1", "ST1", "", "BHE", 2, 4, None, None, None, None) >>],
       \* 8: bytes no reader understands
       [kind |-> "junk", size |-> 2, chans |-> << >>],
       \* 9: MiniSEED file, one trace without a network code
       [kind |-> "MSEED", size |-> 8, chans |->
          << Entry("", "ST1", "", "BHZ", 2, 4, None, None, None, None) >>],
       \* 10: another MiniSEED file of that trace
       [kind |-> "MSEED", size |-> 9, chans |->
          << Entry("", "ST1", "", "BHZ", 2, 4, None, None, None, None) >>],
       \* 11: dataless SEED, one channel of each of two stations
       [kind |-> "SEED", size |-> 10, chans |->
          << Entry("N1", "ST1", "", "BHZ", 6, 7, 5, 6, 0, 0),
             Entry("N1", "ST2", "", "BHZ", 6, 7, 1, 2, 3, 0) >>] >>

\* Every file of the catalog.
Files == DOMAIN Catalog

\* The files of rare shape: a trace without a network code, two stations.
RareFiles == {9, 10, 11}

\* The files the requests of most specifications carry.
Contents == Files \ RareFiles

\* hashlib.md5(data).hexdigest(): a digest in a name space of its own.
md5(data) == 100 + data

\* len(data)
len(data) == Catalog[data].size

\* The value False the readers return when they find no channel.
Unreadable == << >>

read_SEED(data) ==
    IF Catalog[data].kind = "SEED" THEN Catalog[data].chans ELSE Unreadable

read_RESP(data) ==
    IF Catalog[data].kind = "RESP" THEN Catalog[data].chans ELSE Unreadable

\* obspy.read(): the traces, or Unreadable when it raises.
read(data) ==
    IF Catalog[data].kind \in {"SAC", "MSEED"}
    THEN Catalog[data].chans ELSE Unreadable

\* The format name the station readers and obspy attach to the content.
FormatOf(data) == Catalog[data].kind

\* File names carry the start time cut to the month (station files) or to
\* the hour (waveform files): two instants fall into each.
Month(t) == t \div 2
Hour(t) == t \div 2


\* ------------------------------------------------------------------- state
VARIABLES
    events,      \* resource names in the /event_based_data/event view
    fs,          \* the file system: path -> content of the file at that path
    stations,    \* ebd_stations, committed rows; a row's id is its index
    channels,    \* ebd_channels
    filepaths,   \* ebd_filepaths
    metadata,    \* ebd_channel_metadata
    waveforms,   \* ebd_waveform_channels
    procs,       \* the request slots of the server
    rq,          \* per slot: the request being handled and its local state
    snap,        \* per slot: tables and files as they were when it arrived
    uploaded,    \* the successful direct waveform uploads, for the audit
    nreq,        \* number of upload requests received
    nwrites      \* number of files placed outside the managed tree

tables == <<stations, channels, filepaths, metadata, waveforms>>
vars == <<events, fs, stations, channels, filepaths, metadata, waveforms,
          procs, rq, snap, uploaded, nreq, nwrites>>

\* ------------------------------------------------------------------- paths
\* os.path.join(root, dir, "{net}.{sta}.{loc}.{cha}-{date}") plus the ".n"
\* suffix write_string_to_filesystem may append (n = 0: no suffix).
Path(root, dir, net, sta, loc, cha, t, n) ==
    [root |-> root, dir |-> dir, net |-> net, sta |-> sta, loc |-> loc,
     cha |-> cha, t |-> t, n |-> n]

\* os.path.abspath(index_file) of a file outside the managed tree.
ExtPath(name) == Path("ext", name, "", "", "", "", 0, 0)

NoPath == Path("", "", "", "", "", "", 0, 0)

\* Not existent codes are replaced with "XX".
Placeholder(code) == IF code = "" THEN "XX" ELSE code

StationFileName(chans) ==
    Path("station_filepath", chans[1].net, chans[1].net, chans[1].sta,
         chans[1].loc, chans[1].cha, Month(chans[1].start), 0)

WaveformFileName(event_id, st) ==
    Path("waveform_filepath", event_id, Placeholder(st[1].net),
         Placeholder(st[1].sta), st[1].loc, Placeholder(st[1].cha),
         Hour(st[1].start), 0)

\* As FreeFileName, the test os.path.exists(filename) left out.
SameFileName(filename) == filename

\* The exists-loop of write_string_to_filesystem: filename if it is free,
\* else filename.i for the smallest i >= 1 that is free.
FreeFileName(filename) ==
    IF filename \notin DOMAIN fs THEN filename
    ELSE LET free(i) == [filename EXCEPT !.n = i] \notin DOMAIN fs
             i == CHOOSE j \in 1..(Cardinality(DOMAIN fs) + 1) :
                     free(j) /\ \A h \in 1..(j - 1) : ~free(h)
         IN [filename EXCEPT !.n = i]

\* ------------------------------------------------------------ util.py
\* As event_exists, the count of the query ignored.
event_exists_always(event_name) == TRUE

event_exists(event_name) == event_name \in events

\* As check_if_file_exist_in_db, the digest compared with the wrong column.
check_wrong_column(data) ==
    \E i \in DOMAIN filepaths : filepaths[i].size = md5(data)

\* The count of check_if_file_exist_in_db is not 0.
check_if_file_exist_in_db(data) ==
    \E i \in DOMAIN filepaths : filepaths[i].md5_hash = md5(data)

\* The station's id, or 0 for False.
get_station_id(network, station) ==
    LET ids == {i \in DOMAIN stations : stations[i].network = network
                                        /\ stations[i].station = station}
    IN IF ids = {} THEN 0 ELSE CHOOSE i \in ids : TRUE

\* The id of the channel row (station_id, location, channel), or 0.
ChannelId(station_id, location, channel) ==
    LET ids == {i \in DOMAIN channels : channels[i].station_id = station_id
                                        /\ channels[i].location = location
                                        /\ channels[i].channel = channel}
    IN IF ids = {} THEN 0 ELSE CHOOSE i \in ids : TRUE

TagsOf(rows) == [i \in DOMAIN rows |-> rows[i].tag]

\* The join condition is ChannelObject.station_id == station_id: it does not
\* tie the waveform row to the channel row, so every waveform row of the
\* event is paired with the (at most one) channel row that passes the filter.
get_all_tags(network, station, location, channel, event_id) ==
    LET station_id == get_station_id(network, station)
        hit(w) == w.event_resource_id = event_id
    IN IF station_id = 0 THEN << >>
       ELSE IF ChannelId(station_id, location, channel) = 0 THEN << >>
       ELSE TagsOf(SelectSeq(waveforms, hit))

\* Python's "not x" for a float or None.
Not(x) == x = None \/ x = 0

\* As Updated, without the test "value is not None".
UpdatedAlsoWithNone(stored, value, force_update) ==
    IF Not(stored) \/ force_update THEN value ELSE stored

\* One "if value is not None and (not stored or force_update is True)".
Updated(stored, value, force_update) ==
    IF value # None /\ (Not(stored) \/ force_update) THEN value ELSE stored

\* The station half of add_or_update_channel: the id of the station row
\* found (0: a new row is added), the row as loaded (old) and as assigned.
StationUpdate(network, station, latitude, longitude, elevation, local_depth, force_update) ==
    LET sid == get_station_id(network, station)
        old == IF sid = 0
               THEN [network |-> network, station |-> station,
                     latitude |-> None, longitude |-> None,
                     elevation_in_m |-> None, local_depth_in_m |-> None]
               ELSE stations[sid]
    IN [st |-> sid, ch |-> 0, old |-> old,
        new |-> [old EXCEPT
            !.latitude = Updated(old.latitude, latitude, force_update),
            !.longitude = Updated(old.longitude, longitude, force_update),
            !.elevation_in_m =
                Updated(old.elevation_in_m, elevation, force_update),
            !.local_depth_in_m =
                Updated(old.local_depth_in_m, local_depth, force_update)]]

\* As add_or_update_channel, the channel query taken to find nothing.
add_channel_always(network, station, location, channel, latitude, longitude, elevation, local_depth, force_update) ==
    StationUpdate(network, station, latitude, longitude, elevation,
                  local_depth, force_update)

\* What add_or_update_channel reads and hands to the session: the station
\* half and the id of the channel row found (0: a new row is added).
add_or_update_channel(network, station, location, channel, latitude, longitude, elevation, local_depth, force_update) ==
    LET s == StationUpdate(network, station, latitude, longitude, elevation,
                           local_depth, force_update)
    IN [s EXCEPT !.ch = IF s.st = 0 THEN 0
                        ELSE ChannelId(s.st, location, channel)]

NoPend ==
    LET none == [network |-> "", station |-> "", latitude |-> None,
                 longitude |-> None, elevation_in_m |-> None,
                 local_depth_in_m |-> None]
    IN [st |-> 0, ch |-> 0, old |-> none, new |-> none]


\* ------------------------------------------------------------ the requests
Idle ==
    [pc |-> "idle", ep |-> "", index |-> "", data |-> 0, event |-> NoEvent,
     tag |-> "", fname |-> NoPath, fpid |-> 0, k |-> 0, pend |-> NoPend,
     out |-> "", err |-> ""]

State ==
    [events |-> events, fs |-> fs, stations |-> stations, channels |-> channels,
     filepaths |-> filepaths, metadata |-> metadata, waveforms |-> waveforms]

\* As StationChannels, without the second attempt.
StationChannelsSeedOnly(data) == read_SEED(data)

\* channels of the station handler: SEED/XSEED first, RESP otherwise.
StationChannels(data) ==
    IF read_SEED(data) # Unreadable THEN read_SEED(data) ELSE read_RESP(data)

\* The channel entries or traces the handler of endpoint ep loops over.
Parsed(ep, data) ==
    IF ep = "station" THEN StationChannels(data) ELSE read(data)

\* sac.stla if sac.stla != iv else None; None when stats has no sac header.
SacCoord(data, v) ==
    IF Catalog[data].kind = "SAC" THEN (IF v # iv THEN v ELSE None) ELSE None

\* The coordinate the handler of ep passes to add_or_update_channel.
Coord(ep, data, v) == IF ep = "station" THEN v ELSE SacCoord(data, v)

\* Python's "x in list".
In(x, list) == \E i \in DOMAIN list : list[i] = x

\* The tags looked up for the first trace, its empty codes replaced.
FirstTraceTags(st, event_id) ==
    get_all_tags(Placeholder(st[1].net), Placeholder(st[1].sta), st[1].loc,
                 Placeholder(st[1].cha), event_id)

\* The request ends with exception e; nothing was written so far.
Reject(p, r, e) ==
    /\ rq' = [rq EXCEPT ![p] = [r EXCEPT !.pc = "done", !.out = e]]
    /\ UNCHANGED <<fs, tables, uploaded>>

\* process_POST of both mappers up to the point where the file is written:
\* parameters, index_file, checksum, parsing, tag.
Receive(p, ep, index, content, event_id, tag) ==
    /\ rq[p].pc \in {"idle", "done"}
    /\ nreq < MaxRequests
    /\ nreq' = nreq + 1
    /\ snap' = [snap EXCEPT ![p] = State]
    /\ UNCHANGED <<events, procs, nwrites>>
    /\ LET filename == ExtPath(index)
           data == IF index = "" THEN content
                   ELSE IF filename \in DOMAIN fs THEN fs[filename] ELSE 0
           r == [Idle EXCEPT !.ep = ep, !.index = index, !.data = data,
                             !.event = event_id, !.tag = tag]
           st == Parsed(ep, data)
       IN IF ep = "waveform" /\ event_id = NoEvent
          THEN Reject(p, r, "InvalidParameterError")
          ELSE IF ep = "waveform" /\ ~event_exists(event_id)
          THEN Reject(p, r, "InvalidParameterError")
          ELSE IF index # "" /\ filename \notin DOMAIN fs
          THEN Reject(p, r, "InvalidParameterError")
          ELSE IF check_if_file_exist_in_db(data)
          THEN Reject(p, r, "DuplicateObjectError")
          ELSE IF st = Unreadable
          THEN Reject(p, r, "InvalidObjectError")
          ELSE IF ep = "waveform" /\ In(tag, FirstTraceTags(st, event_id))
          THEN Reject(p, r, "InvalidParameterError")
          ELSE /\ rq' = [rq EXCEPT ![p] =
                    [r EXCEPT !.pc = IF index = "" THEN "name" ELSE "upsert",
                              !.k = 1,
                              !.fname = IF index # "" THEN filename
                                        ELSE IF ep = "station"
                                        THEN StationFileName(st)
                                        ELSE WaveformFileName(event_id, st)]]
               /\ UNCHANGED <<fs, tables, uploaded>>

\* write_string_to_filesystem, first half: look for a name that is not taken.
PickName(p) ==
    /\ rq[p].pc = "name"
    /\ rq' = [rq EXCEPT ![p].pc = "write",
                        ![p].fname = FreeFileName(rq[p].fname)]
    /\ UNCHANGED <<events, fs, tables, procs, snap, uploaded, nreq, nwrites>>

\* write_string_to_filesystem, second half: open(filename, "wb") and write.
WriteFile(p) ==
    /\ rq[p].pc = "write"
    /\ fs' = (rq[p].fname :> rq[p].data) @@ fs
    /\ rq' = [rq EXCEPT ![p].pc = "upsert"]
    /\ UNCHANGED <<events, tables, procs, snap, uploaded, nreq, nwrites>>

\* The k-th pass of the loop up to session.add: add_or_update_channel reads
\* the committed rows and prepares the station and channel rows.
Upsert(p) ==
    /\ rq[p].pc = "upsert"
    /\ LET r == rq[p]
           c == Parsed(r.ep, r.data)[r.k]
       IN rq' = [rq EXCEPT ![p].pc = "commit",
                           ![p].pend = add_or_update_channel(
                               c.net, c.sta, c.loc, c.cha,
                               Coord(r.ep, r.data, c.lat),
                               Coord(r.ep, r.data, c.lon),
                               Coord(r.ep, r.data, c.elev),
                               Coord(r.ep, r.data, c.depth), FALSE)]
    /\ UNCHANGED <<events, fs, tables, procs, snap, uploaded, nreq, nwrites>>


\* ---------------------------------------------- the constraints at flush
\* ebd_filepaths: filepath is unique (md5_hash is not).
FilepathTaken(filepath) ==
    \E i \in DOMAIN filepaths : filepaths[i].filepath = filepath

\* ebd_stations: UniqueConstraint("network", "station").
StationTaken(network, station) == get_station_id(network, station) # 0

\* ebd_channels: UniqueConstraint("station_id", "location", "channel").
ChannelTaken(station_id, location, channel) ==
    ChannelId(station_id, location, channel) # 0

\* ebd_channel_metadata: UniqueConstraint("channel_id", "filepath_id",
\* "starttime", "endtime"); endtime is nullable, and to a UNIQUE constraint
\* of SQLite and PostgreSQL two NULLs are distinct values.
MetadataTaken(channel_id, filepath_id, starttime, endtime) ==
    /\ endtime # None
    /\ \E i \in DOMAIN metadata :
          /\ metadata[i].channel_id = channel_id
          /\ metadata[i].filepath_id = filepath_id
          /\ metadata[i].starttime = starttime
          /\ metadata[i].endtime = endtime

\* As Violation, no constraint enforced.
NoViolation(r) == ""

\* The constraint the flush of slot request r violates, "" if none: rows are
\* inserted in the order filepath, station, channel, metadata.
Violation(r) ==
    LET c == Parsed(r.ep, r.data)[r.k]
    IN IF r.fpid = 0 /\ FilepathTaken(r.fname) THEN "ebd_filepaths"
       ELSE IF r.pend.st = 0 /\ StationTaken(c.net, c.sta) THEN "ebd_stations"
       ELSE IF r.pend.st # 0 /\ r.pend.ch = 0
               /\ ChannelTaken(r.pend.st, c.loc, c.cha) THEN "ebd_channels"
       ELSE IF r.ep = "station" /\ r.fpid # 0 /\ r.pend.ch # 0
               /\ MetadataTaken(r.pend.ch, r.fpid, c.start, c.end)
       THEN "ebd_channel_metadata"
       ELSE ""

\* The UPDATE of a loaded station row: the columns assigned a new value.
Flushed(stored, old, new) ==
    [stored EXCEPT
        !.latitude = IF new.latitude # old.latitude
                     THEN new.latitude ELSE @,
        !.longitude = IF new.longitude # old.longitude
                      THEN new.longitude ELSE @,
        !.elevation_in_m = IF new.elevation_in_m # old.elevation_in_m
                           THEN new.elevation_in_m ELSE @,
        !.local_depth_in_m = IF new.local_depth_in_m # old.local_depth_in_m
                             THEN new.local_depth_in_m ELSE @]

\* As FilepathRow, the size of the row left at 0.
FilepathRowNoSize(r) ==
    [filepath |-> r.fname, size |-> 0, md5_hash |-> md5(r.data),
     is_managed_by_seishub |-> (r.index = "")]

\* add_filepath_to_database: the row of the file of slot request r.
FilepathRow(r) ==
    [filepath |-> r.fname, size |-> len(r.data), md5_hash |-> md5(r.data),
     is_managed_by_seishub |-> (r.index = "")]

\* ChannelMetadataObject(...) of the station handler.
MetadataRow(r, c, channel_id, filepath_id) ==
    [channel_id |-> channel_id, filepath_id |-> filepath_id,
     starttime |-> c.start, endtime |-> c.end, format |-> FormatOf(r.data)]

\* WaveformChannelObject(...) of the waveform handler.
WaveformRow(r, c, channel_id, filepath_id) ==
    [channel_id |-> channel_id, filepath_id |-> filepath_id,
     event_resource_id |-> r.event, starttime |-> c.start,
     endtime |-> c.end, tag |-> r.tag, format |-> FormatOf(r.data)]

\* os.remove(filename)
Removed(filename) == [q \in (DOMAIN fs) \ {filename} |-> fs[q]]

\* As Inserted, the new row written over the last row of the table.
InsertedOver(table, row) ==
    IF table = << >> THEN <<row>> ELSE [table EXCEPT ![Len(table)] = row]

\* session.add(row) and the INSERT of the flush: the row gets the next id.
Inserted(table, row) == Append(table, row)

\* As AfterFailure, the test of file_is_managed_by_seishub left out.
RemovedAlways(r) == Removed(r.fname)

\* The except block: "if file_is_managed_by_seishub: os.remove(filename)".
AfterFailure(r) == IF r.index = "" THEN Removed(r.fname) ELSE fs

\* The k-th pass of the loop from session.add to session.commit(), and the
\* except block when the flush raises: rollback, removal of the written file.
Commit(p) ==
    /\ rq[p].pc = "commit"
    /\ UNCHANGED <<events, procs, snap, nreq, nwrites>>
    /\ LET r == rq[p]
           st == Parsed(r.ep, r.data)
           c == st[r.k]
           filepath_id == IF r.fpid = 0 THEN Len(filepaths) + 1 ELSE r.fpid
           station_id == IF r.pend.st = 0 THEN Len(stations) + 1
                         ELSE r.pend.st
           channel_id == IF r.pend.ch = 0 THEN Len(channels) + 1
                         ELSE r.pend.ch
           last == r.k = Len(st)
       IN IF Violation(r) # ""
          THEN /\ fs' = AfterFailure(r)
               /\ rq' = [rq EXCEPT ![p] =
                    [r EXCEPT !.pc = "done", !.pend = NoPend,
                              !.out = IF r.index = "" /\ r.fname \notin DOMAIN fs
                                      THEN "OSError"
                                      ELSE "InternalServerError",
                              !.err = Violation(r)]]
               /\ UNCHANGED <<tables, uploaded>>
          ELSE /\ filepaths' = IF r.fpid = 0
                               THEN Inserted(filepaths, FilepathRow(r))
                               ELSE filepaths
               /\ stations' = IF r.pend.st = 0
                              THEN Inserted(stations, r.pend.new)
                              ELSE [stations EXCEPT ![station_id] =
                                       Flushed(@, r.pend.old, r.pend.new)]
               /\ channels' = IF r.pend.ch = 0
                              THEN Inserted(channels,
                                      [station_id |-> station_id,
                                       location |-> c.loc, channel |-> c.cha])
                              ELSE channels
               /\ metadata' = IF r.ep = "station"
                              THEN Inserted(metadata,
                                      MetadataRow(r, c, channel_id, filepath_id))
                              ELSE metadata
               /\ waveforms' = IF r.ep = "waveform"
                               THEN Inserted(waveforms,
                                      WaveformRow(r, c, channel_id, filepath_id))
                               ELSE waveforms
               /\ rq' = [rq EXCEPT ![p] =
                    [r EXCEPT !.pc = IF last THEN "done" ELSE "upsert",
                              !.k = IF last THEN r.k ELSE r.k + 1,
                              !.fpid = filepath_id, !.pend = NoPend,
                              !.out = IF last THEN "ok" ELSE ""]]
               /\ uploaded' = IF last /\ r.ep = "waveform" /\ r.index = ""
                              THEN uploaded \cup
                                   {[data |-> r.data, event |-> r.event,
                                     tag |-> r.tag, net |-> st[1].net,
                                     sta |-> st[1].sta, loc |-> st[1].loc,
                                     cha |-> st[1].cha]}
                              ELSE uploaded
               /\ UNCHANGED fs

\* ------------------------------------------------------------ environment
\* POST of an event resource: its name appears in the event view.
UploadEvent(e) ==
    /\ e \notin events
    /\ \E p \in procs : rq[p].pc \in {"idle", "done"}
    /\ events' = events \cup {e}
    /\ UNCHANGED <<fs, tables, procs, rq, snap, uploaded, nreq, nwrites>>

\* The files somebody places outside the managed tree to have them indexed.
ExtContents == {c \in Contents : Catalog[c].kind \in {"RESP", "SAC"}}

ExternalWrite(name, content) ==
    /\ nwrites < MaxExternalWrites
    /\ nwrites' = nwrites + 1
    /\ fs' = (ExtPath(name) :> content) @@ fs
    /\ UNCHANGED <<events, tables, procs, rq, snap, uploaded, nreq>>

\* ------------------------------------------------------- the four uploads
UploadStation(p, content) == Receive(p, "station", "", content, NoEvent, "")

IndexStation(p, name) == Receive(p, "station", name, 0, NoEvent, "")

UploadWaveform(p, content, event_id, tag) ==
    Receive(p, "waveform", "", content, event_id, tag)

IndexWaveform(p, name, event_id, tag) ==
    Receive(p, "waveform", name, 0, event_id, tag)

\* ----------------------------------------------------------- specification
InitWith(slots) ==
    /\ fs = [q \in {} |-> 0]
    /\ stations = << >>
    /\ channels = << >>
    /\ filepaths = << >>
    /\ metadata = << >>
    /\ waveforms = << >>
    /\ procs = slots
    /\ rq = [p \in slots |-> Idle]
    /\ snap = [p \in slots |->
                 [events |-> {}, fs |-> [q \in {} |-> 0], stations |-> << >>,
                  channels |-> << >>, filepaths |-> << >>,
                  metadata |-> << >>, waveforms |-> << >>]]
    /\ uploaded = {}
    /\ nreq = 0
    /\ nwrites = 0

\* One request at a time, no event stored yet.
Init ==
    /\ InitWith({1})
    /\ events = {}

\* Two requests in flight, the events already stored.
InitConc ==
    /\ InitWith({1, 2})
    /\ events = Events

Next ==
    \/ \E e \in Events : UploadEvent(e)
    \/ \E x \in ExtNames, c \in ExtContents : ExternalWrite(x, c)
    \/ \E p \in procs, c \in Contents : UploadStation(p, c)
    \/ \E p \in procs, x \in ExtNames : IndexStation(p, x)
    \/ \E p \in procs, c \in Contents, e \in Events \cup {NoEvent},
          t \in Tags : UploadWaveform(p, c, e, t)
    \/ \E p \in procs, x \in ExtNames, e \in Events \cup {NoEvent},
          t \in Tags : IndexWaveform(p, x, e, t)
    \/ \E p \in procs : PickName(p)
    \/ \E p \in procs : WriteFile(p)
    \/ \E p \in procs : Upsert(p)
    \/ \E p \in procs : Commit(p)

\* The direct uploads and their steps.
NextConc ==
    \/ \E p \in procs, c \in Contents : UploadStation(p, c)
    \/ \E p \in procs, c \in Contents, e \in Events \cup {NoEvent},
          t \in Tags : UploadWaveform(p, c, e, t)
    \/ \E p \in procs : PickName(p)
    \/ \E p \in procs : WriteFile(p)
    \/ \E p \in procs : Upsert(p)
    \/ \E p \in procs : Commit(p)

\* One request at a time, the events stored, nothing uploaded directly.
InitIndex ==
    /\ InitWith({1})
    /\ events = Events

\* Files of any content placed on the server and indexed.
NextIndex ==
    \/ \E x \in ExtNames, c \in Contents : ExternalWrite(x, c)
    \/ \E p \in procs, x \in ExtNames : IndexStation(p, x)
    \/ \E p \in procs, x \in ExtNames, e \in Events \cup {NoEvent},
          t \in Tags : IndexWaveform(p, x, e, t)
    \/ \E p \in procs : Upsert(p)
    \/ \E p \in procs : Commit(p)

\* One request at a time, no event stored yet: the events and the direct
\* uploads with their steps.
NextDirect ==
    \/ \E e \in Events : UploadEvent(e)
    \/ \E p \in procs, c \in Contents : UploadStation(p, c)
    \/ \E p \in procs, c \in Contents, e \in Events \cup {NoEvent},
          t \in Tags : UploadWaveform(p, c, e, t)
    \/ \E p \in procs : PickName(p)
    \/ \E p \in procs : WriteFile(p)
    \/ \E p \in procs : Upsert(p)
    \/ \E p \in procs : Commit(p)

\* One request at a time, no event stored yet: the events and the direct
\* uploads of every file of the catalog.
NextWide ==
    \/ \E e \in Events : UploadEvent(e)
    \/ \E p \in procs, c \in Files : UploadStation(p, c)
    \/ \E p \in procs, c \in Files, e \in Events \cup {NoEvent},
          t \in Tags : UploadWaveform(p, c, e, t)
    \/ \E p \in procs : PickName(p)
    \/ \E p \in procs : WriteFile(p)
    \/ \E p \in procs : Upsert(p)
    \/ \E p \in procs : Commit(p)

Spec == Init /\ [][Next]_vars

SpecIndex == InitIndex /\ [][NextIndex]_vars

SpecConc == InitConc /\ [][NextConc]_vars

SpecDirect == Init /\ [][NextDirect]_vars

SpecWide == Init /\ [][NextWide]_vars


\* ================================================================== claims
Done(p) == rq[p].pc = "done"

Failed(p) == Done(p) /\ rq[p].out # "ok"

Succeeded(p) == Done(p) /\ rq[p].out = "ok"

\* The files of the managed data tree, with their contents.
ManagedTree(files) ==
    [q \in {x \in DOMAIN files : x.root # "ext"} |-> files[q]]

TablesOf(s) ==
    <<s.stations, s.channels, s.filepaths, s.metadata, s.waveforms>>

\* The content of the request of slot p had the checksum of a committed
\* FilePath row when the request arrived.
DuplicateOnArrival(p) ==
    /\ rq[p].data \in Contents
    /\ \E i \in DOMAIN snap[p].filepaths :
          snap[p].filepaths[i].md5_hash = md5(rq[p].data)

\* The waveform request of slot p named no event, or none stored on arrival.
WithoutEvent(p) ==
    /\ rq[p].ep = "waveform"
    /\ rq[p].event = NoEvent \/ rq[p].event \notin snap[p].events

\* C1 as stated: every upload whose content has the checksum of a committed
\* FilePath row ends with DuplicateObjectError.
C1_DuplicateAlwaysDuplicateError ==
    \A p \in procs :
        Done(p) /\ DuplicateOnArrival(p)
            => rq[p].out = "DuplicateObjectError"

\* C1 amended: such an upload fails, with DuplicateObjectError unless it is a
\* waveform upload that names no stored event, which the event test rejects
\* first with InvalidParameterError.
C1_DuplicateFails ==
    \A p \in procs :
        Done(p) /\ DuplicateOnArrival(p)
            => IF WithoutEvent(p)
               THEN rq[p].out = "InvalidParameterError"
               ELSE rq[p].out = "DuplicateObjectError"

\* An indexed file whose bytes were stored before is rejected as a duplicate.
C1_Witness ==
    \E p \in procs :
        /\ Done(p) /\ DuplicateOnArrival(p)
        /\ rq[p].index # ""
        /\ rq[p].out = "DuplicateObjectError"

\* C2: an upload that ends in an error leaves the rows of all tables and the
\* files of the managed data tree as they were when it arrived.
C2_FailedUploadLeavesNoTrace ==
    \A p \in procs :
        Failed(p)
            => /\ tables = TablesOf(snap[p])
               /\ ManagedTree(fs) = ManagedTree(snap[p].fs)

\* The step is the arrival of a new request at slot p.
Arrives(p) ==
    /\ nreq' = nreq + 1
    /\ rq[p].pc \in {"idle", "done"}
    /\ \A q \in procs \ {p} : rq'[q] = rq[q]

\* C3: a waveform POST without event parameter, or naming an event that is
\* not stored, ends at once with InvalidParameterError; the step changes
\* neither a file nor a row.
C3_NoEventRejectedFirst ==
    [][\A p \in procs :
          /\ Arrives(p)
          /\ rq'[p].ep = "waveform"
          /\ rq'[p].event = NoEvent \/ rq'[p].event \notin events
          => /\ rq'[p].pc = "done"
             /\ rq'[p].out = "InvalidParameterError"
             /\ fs' = fs
             /\ tables' = tables]_vars

\* A readable waveform file was posted for an event that is not stored.
C3_Witness ==
    \E p \in procs :
        /\ Done(p) /\ WithoutEvent(p)
        /\ rq[p].event # NoEvent
        /\ rq[p].data \in Contents
        /\ read(rq[p].data) # Unreadable
        /\ rq[p].out = "InvalidParameterError"

CoordFields ==
    {"latitude", "longitude", "elevation_in_m", "local_depth_in_m"}

\* The value the entry c of the file of request r carries for a field.
Carried(r, c, f) ==
    CASE f = "latitude" -> Coord(r.ep, r.data, c.lat)
      [] f = "longitude" -> Coord(r.ep, r.data, c.lon)
      [] f = "elevation_in_m" -> Coord(r.ep, r.data, c.elev)
      [] f = "local_depth_in_m" -> Coord(r.ep, r.data, c.depth)

\* The entry slot p is committing belongs to station row i.
Committing(p, i) ==
    /\ rq[p].pc = "commit"
    /\ Parsed(rq[p].ep, rq[p].data)[rq[p].k].net = stations[i].network
    /\ Parsed(rq[p].ep, rq[p].data)[rq[p].k].sta = stations[i].station

\* C4: a stored non-null coordinate of a station changes only in a step
\* that commits an entry of that station carrying a non-null value for it;
\* an upload carrying a null value leaves it as it is.
C4_NullNeverOverwrites ==
    [][\A i \in DOMAIN stations : \A f \in CoordFields :
          stations[i][f] # None /\ stations'[i][f] # stations[i][f]
          => \E p \in procs :
                /\ Committing(p, i)
                /\ Carried(rq[p], Parsed(rq[p].ep, rq[p].data)[rq[p].k], f)
                      = stations'[i][f]
                /\ stations'[i][f] # None]_vars

\* A file without coordinates was stored for a station that had them.
C4_Witness ==
    \E p \in procs : \E i \in DOMAIN snap[p].stations :
        /\ Succeeded(p)
        /\ snap[p].stations[i].latitude # None
        /\ snap[p].stations[i].elevation_in_m # None
        /\ \A k \in DOMAIN Parsed(rq[p].ep, rq[p].data) :
              LET c == Parsed(rq[p].ep, rq[p].data)[k]
              IN /\ c.net = snap[p].stations[i].network
                 /\ c.sta = snap[p].stations[i].station
                 /\ Carried(rq[p], c, "latitude") = None
                 /\ Carried(rq[p], c, "elevation_in_m") = None
        /\ stations[i] = snap[p].stations[i]


\* ------------------------------------------------ GET /waveform, format=raw
Response(status, data) == [status |-> status, data |-> data]

\* WaveformMapper.process_GET with event, channel_id = network.station.
\* location.channel, tag and format = raw: the bytes of the file of the one
\* matching row, or the exception that ends the request.
process_GET(event_id, network, station, location, channel, tag) ==
    LET station_id == get_station_id(network, station)
        rows == {i \in DOMAIN waveforms :
                    /\ waveforms[i].event_resource_id = event_id
                    /\ waveforms[i].tag = tag
                    /\ channels[waveforms[i].channel_id].location = location
                    /\ channels[waveforms[i].channel_id].channel = channel
                    /\ channels[waveforms[i].channel_id].station_id
                          = station_id}
        filepath == filepaths[waveforms[CHOOSE i \in rows : TRUE]
                                 .filepath_id].filepath
    IN IF event_id = NoEvent \/ ~event_exists(event_id)
       THEN Response("InvalidParameterError", 0)
       ELSE IF station_id = 0 THEN Response("InvalidParameterError", 0)
       ELSE IF rows = {} THEN Response("NotFoundError", 0)
       ELSE IF Cardinality(rows) > 1 THEN Response("MultipleResultsFound", 0)
       ELSE IF filepath \notin DOMAIN fs THEN Response("IOError", 0)
       ELSE Response("ok", fs[filepath])

\* No request is being handled.
Quiet == \A p \in procs : rq[p].pc \in {"idle", "done"}

\* C5: after any sequence of uploads, the raw download of a successfully
\* uploaded waveform (its event, the channel of its first trace, its tag)
\* returns the uploaded bytes.
C5_RawDownloadReturnsUpload ==
    Quiet => \A u \in uploaded :
                process_GET(u.event, u.net, u.sta, u.loc, u.cha, u.tag)
                    = Response("ok", u.data)

\* C6: no two ChannelMetadata rows have the same channel, filepath,
\* starttime and endtime.
C6_MetadataIntervalUnique ==
    \A i, j \in DOMAIN metadata :
        /\ metadata[i].channel_id = metadata[j].channel_id
        /\ metadata[i].filepath_id = metadata[j].filepath_id
        /\ metadata[i].starttime = metadata[j].starttime
        /\ metadata[i].endtime = metadata[j].endtime
        => i = j

\* C7: no two committed FilePath rows have the same md5_hash, whatever the
\* interleaving of the requests.
C7_ChecksumUnique ==
    \A i, j \in DOMAIN filepaths :
        filepaths[i].md5_hash = filepaths[j].md5_hash => i = j

\* C8: no two WaveformChannel rows have the same channel, event and tag.
C8_OneWaveformPerChannelEventTag ==
    \A i, j \in DOMAIN waveforms :
        /\ waveforms[i].channel_id = waveforms[j].channel_id
        /\ waveforms[i].event_resource_id = waveforms[j].event_resource_id
        /\ waveforms[i].tag = waveforms[j].tag
        => i = j

\* C9: one Station row per (network, station) and one Channel row per
\* (station, location, channel); every entry of a successful upload has its
\* rows, and no upload ends because it tried to add a station or a channel
\* that was there already.
C9_OneRowPerStationAndChannel ==
    /\ \A i, j \in DOMAIN stations :
          /\ stations[i].network = stations[j].network
          /\ stations[i].station = stations[j].station
          => i = j
    /\ \A i, j \in DOMAIN channels :
          /\ channels[i].station_id = channels[j].station_id
          /\ channels[i].location = channels[j].location
          /\ channels[i].channel = channels[j].channel
          => i = j
    /\ \A p \in procs :
          Succeeded(p) =>
             \A k \in DOMAIN Parsed(rq[p].ep, rq[p].data) :
                LET c == Parsed(rq[p].ep, rq[p].data)[k]
                IN /\ get_station_id(c.net, c.sta) # 0
                   /\ ChannelId(get_station_id(c.net, c.sta), c.loc, c.cha) # 0
    /\ \A p \in procs :
          Done(p) => rq[p].err \notin {"ebd_stations", "ebd_channels"}

\* An upload succeeded whose first entry names a channel known on arrival.
C9_Witness ==
    \E p \in procs : \E i \in DOMAIN snap[p].channels :
        /\ Succeeded(p)
        /\ LET c == Parsed(rq[p].ep, rq[p].data)[1]
               s == snap[p].stations[snap[p].channels[i].station_id]
           IN /\ s.network = c.net /\ s.station = c.sta
              /\ snap[p].channels[i].location = c.loc
              /\ snap[p].channels[i].channel = c.cha
        /\ Len(channels) = Len(snap[p].channels)

\* Every channel entry and trace of the files.
Entries == UNION {{Catalog[d].chans[k] : k \in DOMAIN Catalog[d].chans} : d \in Contents}

\* The tags of the waveform rows of one channel and one event, in the order
\* of insertion.
TagsOfChannel(network, station, location, channel, event_id) ==
    LET own(w) ==
            /\ w.event_resource_id = event_id
            /\ channels[w.channel_id].location = location
            /\ channels[w.channel_id].channel = channel
            /\ stations[channels[w.channel_id].station_id].network = network
            /\ stations[channels[w.channel_id].station_id].station = station
    IN TagsOf(SelectSeq(waveforms, own))

\* C10: get_all_tags returns the tags of the waveform rows of that channel
\* and that event and of no other, and nothing for an unknown station.
C10_TagsOfOwnChannelOnly ==
    /\ \A c \in Entries : \A e \in Events :
          get_all_tags(c.net, c.sta, c.loc, c.cha, e)
              = TagsOfChannel(c.net, c.sta, c.loc, c.cha, e)
    /\ \A e \in Events : get_all_tags("N9", "ST9", "", "BHZ", e) = << >>


\* The FilePath row of the file of the request of slot p.
RowOf(p) == filepaths[rq[p].fpid]

\* C11: no step of a request made with index_file creates, changes or
\* deletes a file, whether the request goes on, succeeds or fails; after a
\* success the FilePath row holds the absolute path, the size of the file
\* and is_managed_by_seishub = False.
C11_IndexFileTouchesNoFile ==
    /\ [][\A p \in procs :
             rq'[p] # rq[p] /\ rq'[p].index # "" => fs' = fs]_vars
    /\ [](\A p \in procs :
             Succeeded(p) /\ rq[p].index # ""
             => /\ rq[p].fpid \in DOMAIN filepaths
                /\ RowOf(p).filepath = ExtPath(rq[p].index)
                /\ RowOf(p).size = len(rq[p].data)
                /\ ~RowOf(p).is_managed_by_seishub)

\* An indexed file failed in the commit phase and is still where it was.
C11_Witness ==
    \E p \in procs :
        /\ Failed(p) /\ rq[p].index # "" /\ rq[p].err # ""
        /\ ExtPath(rq[p].index) \in DOMAIN fs
        /\ fs[ExtPath(rq[p].index)] = rq[p].data

\* The content a checksum was computed from.
ContentOf(md5_hash) == CHOOSE c \in Files : md5(c) = md5_hash

\* The metadata and waveform rows that point to FilePath row i.
RowsOfFile(i) ==
    Cardinality({j \in DOMAIN metadata : metadata[j].filepath_id = i})
    + Cardinality({j \in DOMAIN waveforms : waveforms[j].filepath_id = i})

\* C12: an upload commits once, after all rows of its file were added: the
\* committed tables, as any other request reads them, never hold a FilePath
\* row with fewer metadata or waveform rows than the file has entries.
C12_OneCommitPerUpload ==
    \A i \in DOMAIN filepaths :
        RowsOfFile(i) = Len(Catalog[ContentOf(filepaths[i].md5_hash)].chans)

\* The status class seishub gives to the exception that ends a request; an
\* exception that is not a SeisHub error ends it with 500.
http_code(e) ==
    CASE e = "ok" -> 200
      [] e = "InvalidParameterError" -> 400
      [] e = "NotFoundError" -> 404
      [] e = "DuplicateObjectError" -> 409
      [] e = "InvalidObjectError" -> 409
      [] OTHER -> 500

\* The file lists one channel with one closed interval twice.
HasRepeat(st) ==
    \E i, j \in DOMAIN st :
        /\ i < j /\ st[i].end # None
        /\ st[i].net = st[j].net /\ st[i].sta = st[j].sta
        /\ st[i].loc = st[j].loc /\ st[i].cha = st[j].cha
        /\ st[i].start = st[j].start /\ st[i].end = st[j].end

\* The upload of slot p was turned down as a duplicate of a stored file.
RejectedAsDuplicate(p) == DuplicateOnArrival(p) /\ ~WithoutEvent(p)

\* The upload of slot p was turned down for a metadata interval stored before.
RejectedForInterval(p) == rq[p].err = "ebd_channel_metadata"

SpanStored(s, c) ==
    \E i \in DOMAIN s.metadata :
        LET ch == s.channels[s.metadata[i].channel_id]
        IN /\ s.stations[ch.station_id].network = c.net
           /\ s.stations[ch.station_id].station = c.sta
           /\ ch.location = c.loc /\ ch.channel = c.cha
           /\ s.metadata[i].starttime = c.start
           /\ s.metadata[i].endtime = c.end

\* C14: a station file with a new checksum whose channels and time spans were
\* all stored from another file is turned down, and no row is added.
C14_SameSpanOtherFileRejected ==
    \A p \in procs :
        LET st == Parsed(rq[p].ep, rq[p].data)
        IN /\ Done(p) /\ rq[p].ep = "station"
           /\ rq[p].data \in Contents /\ ~DuplicateOnArrival(p)
           /\ st # Unreadable
           /\ \A k \in DOMAIN st : SpanStored(snap[p], st[k])
           => /\ Failed(p)
              /\ tables = TablesOf(snap[p])

\* -------------------------------------------------------- the GET requests
\* A parameter the request does not carry; an id that was not given splits
\* into no codes.
Absent == "None"

acceptable_formats == {"mseed", "sac", "gse2", "segy", "raw", "json"}

\* The bytes obspy writes for a trace in a format: not the bytes of the file.
Converted(data, format) == 1000 + data

\* One entry of the lists of waveforms: the row with its channel and station.
ListEntry(w) ==
    [network |-> stations[channels[w.channel_id].station_id].network,
     station |-> stations[channels[w.channel_id].station_id].station,
     location |-> channels[w.channel_id].location,
     channel |-> channels[w.channel_id].channel,
     filepath_id |-> w.filepath_id, tag |-> w.tag,
     starttime |-> w.starttime, endtime |-> w.endtime, format |-> w.format]

ListOf(rows) == [i \in DOMAIN rows |-> ListEntry(rows[i])]

\* As getListForEvent, the filter on event_resource_id left out.
getListOfAll(event_id) == Response("ok", ListOf(waveforms))

\* WaveformMapper.getListForEvent
getListForEvent(event_id) ==
    LET bound(w) == w.event_resource_id = event_id
    IN Response("ok", ListOf(SelectSeq(waveforms, bound)))

\* WaveformMapper.getListForStationAndEvent; station_id split at the dots.
getListForStationAndEvent(event_id, station_id) ==
    LET stat_id == get_station_id(station_id[1], station_id[2])
        hit(w) == /\ w.event_resource_id = event_id
                  /\ channels[w.channel_id].station_id = stat_id
    IN IF Len(station_id) # 2 THEN Response("InvalidParameterError", 0)
       ELSE IF stat_id = 0 THEN Response("InvalidParameterError", 0)
       ELSE Response("ok", ListOf(SelectSeq(waveforms, hit)))

\* WaveformMapper.process_GET with any parameters; channel_id and station_id
\* split at the dots, << >> when not given.
waveform_GET(event_id, channel_id, station_id, tag, format) ==
    LET raw == process_GET(event_id, channel_id[1], channel_id[2],
                           channel_id[3], channel_id[4], tag)
    IN IF event_id = Absent THEN Response("InvalidParameterError", 0)
       ELSE IF ~event_exists(event_id)
       THEN Response("InvalidParameterError", 0)
       ELSE IF channel_id = << >> /\ station_id = << >>
       THEN getListForEvent(event_id)
       ELSE IF station_id # << >>
       THEN getListForStationAndEvent(event_id, station_id)
       ELSE IF format # Absent /\ format \notin acceptable_formats
       THEN Response("InvalidParameterError", 0)
       ELSE IF Len(channel_id) # 4 THEN Response("InvalidParameterError", 0)
       ELSE IF format = "raw" \/ raw.status # "ok" THEN raw
       ELSE Response("ok", Converted(raw.data, format))

\* As getDetails_GET, the test "if not query" left out.
getDetails_unchecked(network, station) == Response("AttributeError", 0)

\* The "channels" list of the result of getDetails for station row id: one
\* entry per channel row in the order of the ids, built from the first
\* metadata row of the channel (channel.channel_metadata[0]).
ChannelInfos(id) ==
    LET ids == [c \in DOMAIN channels |-> c]
        own(c) == channels[c].station_id = id
        md(c) == metadata[CHOOSE m \in DOMAIN metadata :
                     /\ metadata[m].channel_id = c
                     /\ \A h \in DOMAIN metadata :
                           metadata[h].channel_id = c => m <= h]
        info(c) == [channel_code |-> channels[c].channel,
                    location_code |-> channels[c].location,
                    starttime |-> md(c).starttime,
                    endtime |-> md(c).starttime,
                    format |-> md(c).format,
                    channel_filepath_id |-> md(c).filepath_id]
        mine == SelectSeq(ids, own)
    IN [k \in DOMAIN mine |-> info(mine[k])]

\* StationDetailMapper.process_GET: the status; [][0] raises IndexError.
getDetails_GET(network, station) ==
    LET id == get_station_id(network, station)
        bare == {c \in DOMAIN channels :
                    /\ channels[c].station_id = id
                    /\ \A m \in DOMAIN metadata : metadata[m].channel_id # c}
    IN IF network = Absent \/ station = Absent THEN Response("IndexError", 0)
       ELSE IF station = "" \/ network = ""
       THEN Response("InvalidObjectError", 0)
       ELSE IF id = 0 THEN Response("NotFoundError", 0)
       ELSE IF bare # {} THEN Response("IndexError", 0)
       ELSE Response("ok", ChannelInfos(id))

\* FileDownloadMapper.process_GET; filepath_id 0 when not given.
downloadFile_GET(filepath_id) ==
    IF filepath_id = 0 THEN Response("InvalidParameterError", 0)
    ELSE IF filepath_id \notin DOMAIN filepaths
    THEN Response("NotFoundError", 0)
    ELSE IF filepaths[filepath_id].filepath \notin DOMAIN fs
    THEN Response("InternalServerError", 0)
    ELSE Response("ok", fs[filepaths[filepath_id].filepath])

\* EventMapper.get_beachball: the status.
get_beachball(event) ==
    IF event = Absent THEN Response("InvalidParameterError", 0)
    ELSE IF event \notin events THEN Response("NotFoundError", 0)
    ELSE Response("ok", 0)

\* Names no upload and no event resource ever carries.
NoSuchEvent == "e9"
NoSuchStation == <<"N9", "ST9">>
NoSuchChannel == "BHX"

\* The events a request can name that are not stored.
UnknownEvents == (Events \cup {NoSuchEvent}) \ events

\* The station rows as NET.STA split at the dot.
KnownStations ==
    {<<stations[i].network, stations[i].station>> : i \in DOMAIN stations}

\* The GET requests that name a station, a channel or a file id that is not
\* in the database, outside /waveform or with a stored event and station.
NotFoundCases ==
    {getDetails_GET(NoSuchStation[1], NoSuchStation[2]),
     downloadFile_GET(Len(filepaths) + 1)}
    \cup {get_beachball(e) : e \in UnknownEvents}
    \cup {waveform_GET(e, <<s[1], s[2], "", NoSuchChannel>>, << >>, t, f) :
            e \in events, s \in KnownStations, t \in Tags,
            f \in {Absent, "raw"}}

\* The /waveform requests that name an event that is not stored.
UnknownEventCases ==
    {waveform_GET(e, << >>, << >>, "", Absent) : e \in UnknownEvents}
    \cup {waveform_GET(e, <<c.net, c.sta, c.loc, c.cha>>, << >>, t, "raw") :
            e \in UnknownEvents, c \in Entries, t \in Tags}

\* The /waveform requests that name a station that is not stored.
UnknownStationCases ==
    {waveform_GET(e, NoSuchStation \o <<"", "BHZ">>, << >>, t, "raw") :
            e \in events, t \in Tags}
    \cup {waveform_GET(e, << >>, NoSuchStation, "", Absent) : e \in events}

\* C15 as stated: every such request ends with NotFoundError.
C15_UnknownIsNotFound ==
    \A r \in NotFoundCases \cup UnknownEventCases \cup UnknownStationCases :
        r.status = "NotFoundError"

\* C15 amended: NotFoundError for an unknown station of getDetails, an unknown
\* file id of downloadFile, an unknown event of getBeachball and a waveform
\* download that matches no row of a stored event and station; /waveform
\* requests naming an event or a station that is not stored end with
\* InvalidParameterError.
C15_UnknownIsNotFoundOrInvalid ==
    /\ \A r \in NotFoundCases : r.status = "NotFoundError"
    /\ \A r \in UnknownEventCases \cup UnknownStationCases :
          r.status = "InvalidParameterError"

\* Waveforms are stored and requests of each kind can be made.
C15_Witness ==
    /\ Len(waveforms) > 0 /\ Len(metadata) > 0
    /\ UnknownEvents # {NoSuchEvent}
    /\ \E r \in NotFoundCases : r.status = "NotFoundError" /\ r.data = 0
    /\ \E r \in UnknownStationCases : r.status = "InvalidParameterError"

\* The GET requests with a missing or invalid required parameter.
InvalidGetCases ==
    {downloadFile_GET(0),
     getDetails_GET(Absent, "ST1"), getDetails_GET("N1", Absent)}
    \cup {waveform_GET(Absent, c, << >>, t, f) :
            c \in {<< >>, <<"N1", "ST1", "", "BHE">>}, t \in Tags,
            f \in {Absent, "raw"}}
    \cup {waveform_GET(e, <<"N1", "ST1">>, << >>, t, "raw") :
            e \in events, t \in Tags}
    \cup {waveform_GET(e, <<"N1", "ST1", "", "BHE">>, << >>, t, "xml") :
            e \in events, t \in Tags}

\* The upload of slot p named an index_file that was no file on arrival.
IndexFileMissing(p) ==
    rq[p].index # "" /\ ExtPath(rq[p].index) \notin DOMAIN snap[p].fs

\* C16: a request with a missing or invalid required parameter ends with
\* InvalidParameterError; an upload of this kind leaves rows and files alone.
C16_InvalidParameterIs400 ==
    /\ \A r \in InvalidGetCases : r.status = "InvalidParameterError"
    /\ \A p \in procs :
          Done(p) /\ (WithoutEvent(p) \/ IndexFileMissing(p))
          => /\ rq[p].out = "InvalidParameterError"
             /\ tables = TablesOf(snap[p])
             /\ ManagedTree(fs) = ManagedTree(snap[p].fs)

\* Table a with all its rows as they are is the beginning of table b.
IsPrefix(a, b) ==
    /\ Len(a) <= Len(b)
    /\ \A i \in DOMAIN a : b[i] = a[i]

\* C17: no step modifies or removes a committed FilePath, ChannelMetadata,
\* WaveformChannel or Channel row; station rows stay, and only their
\* coordinates change.
C17_RowsOnlyGrow ==
    [][\/ tables' = tables
       \/ /\ IsPrefix(filepaths, filepaths')
          /\ IsPrefix(metadata, metadata')
          /\ IsPrefix(waveforms, waveforms')
          /\ IsPrefix(channels, channels')
          /\ Len(stations) <= Len(stations')
          /\ \A i \in DOMAIN stations :
                /\ stations'[i].network = stations[i].network
                /\ stations'[i].station = stations[i].station]_vars

\* An upload failed in its commit phase when rows of all kinds were stored.
C17_Witness ==
    \E p \in procs :
        /\ Failed(p) /\ rq[p].err # ""
        /\ Len(snap[p].filepaths) > 0
        /\ Len(snap[p].metadata) + Len(snap[p].waveforms) > 0
        /\ IsPrefix(snap[p].filepaths, filepaths)

\* The name with the suffix i (0: no suffix).
Suffixed(filename, i) == [filename EXCEPT !.n = i]

OtherTag(u, v) ==
    /\ u.event = v.event /\ u.tag # v.tag
    /\ u.net = v.net /\ u.sta = v.sta /\ u.loc = v.loc /\ u.cha = v.cha

\* No waveform row of the stored channel c is bound to event e with tag t.
NoRow(c, e, t) ==
    /\ get_station_id(c.net, c.sta) # 0
    /\ \A i \in DOMAIN waveforms :
          ~(/\ ListEntry(waveforms[i]).network = c.net
            /\ ListEntry(waveforms[i]).station = c.sta
            /\ ListEntry(waveforms[i]).location = c.loc
            /\ ListEntry(waveforms[i]).channel = c.cha
            /\ waveforms[i].event_resource_id = e
            /\ waveforms[i].tag = t)

\* C19: when uploads with different tags exist for a channel and an event,
\* the download with tag T (no tag: the empty tag) returns the bytes of the
\* upload made with tag T; a download that matches no row ends with
\* NotFoundError.
C19_TagSelectsItsUpload ==
    Quiet =>
       /\ \A u, v \in uploaded :
             OtherTag(u, v)
             => waveform_GET(u.event, <<u.net, u.sta, u.loc, u.cha>>, << >>,
                             u.tag, "raw") = Response("ok", u.data)
       /\ \A c \in Entries : \A e \in events : \A t \in Tags :
             NoRow(c, e, t)
             => waveform_GET(e, <<c.net, c.sta, c.loc, c.cha>>, << >>,
                             t, "raw").status = "NotFoundError"

\* The ids of the rows of the waveform table ws that are bound to event e.
BoundTo(ws, e) == {i \in DOMAIN ws : ws[i].event_resource_id = e}

\* The list entry x shows the waveform row w.
Shows(x, w) ==
    /\ x.network = stations[channels[w.channel_id].station_id].network
    /\ x.station = stations[channels[w.channel_id].station_id].station
    /\ x.location = channels[w.channel_id].location
    /\ x.channel = channels[w.channel_id].channel
    /\ x.tag = w.tag /\ x.filepath_id = w.filepath_id /\ x.format = w.format

\* C20: GET /waveform with only an event lists each waveform row bound to
\* that event once and nothing else; a finished upload has made the list of
\* its event longer by its number of traces if it succeeded, and has left
\* every list as it was if it failed.
C20_ListOfEvent ==
    \A e \in events :
        LET list == waveform_GET(e, << >>, << >>, "", Absent)
        IN /\ list.status = "ok"
           /\ Len(list.data) = Cardinality(BoundTo(waveforms, e))
           /\ \A i \in BoundTo(waveforms, e) :
                 \E k \in DOMAIN list.data : Shows(list.data[k], waveforms[i])
           /\ \A k \in DOMAIN list.data :
                 \E i \in BoundTo(waveforms, e) :
                    Shows(list.data[k], waveforms[i])
           /\ \A p \in procs :
                 Done(p)
                 => Len(list.data)
                       = Cardinality(BoundTo(snap[p].waveforms, e))
                         + IF Succeeded(p) /\ rq[p].ep = "waveform"
                              /\ rq[p].event = e
                           THEN Len(Parsed(rq[p].ep, rq[p].data)) ELSE 0

\* Waveforms of two events are stored, one of them from a two-trace file.
C20_Witness ==
    /\ Quiet
    /\ \A e \in Events : e \in events /\ BoundTo(waveforms, e) # {}
    /\ \E e \in Events : Cardinality(BoundTo(waveforms, e)) = 2


\* The station rows of network and station.
StationRows(network, station) ==
    {i \in DOMAIN stations : stations[i].network = network
                             /\ stations[i].station = station}

\* The rows slot p's finished request has added to the table now, which was
\* before when the request arrived.
AddedBy(before, now) == SubSeq(now, Len(before) + 1, Len(now))

\* Slot p's request was a direct station upload and has succeeded.
StationUploaded(p) ==
    Succeeded(p) /\ rq[p].ep = "station" /\ rq[p].index = ""

\* C21: a successful direct station upload of a file of n channel entries has
\* added one FilePath row (managed, the size of the upload, the file on disk
\* holding the uploaded bytes) and n ChannelMetadata rows, the k-th of them
\* referencing that FilePath row and the Channel row of the k-th entry; every
\* (network, station) of the file has exactly one Station row.
C21_StationUploadRows ==
    \A p \in procs :
        StationUploaded(p)
        => LET st == Parsed(rq[p].ep, rq[p].data)
               fp == AddedBy(snap[p].filepaths, filepaths)
               md == AddedBy(snap[p].metadata, metadata)
           IN /\ Len(fp) = 1
              /\ rq[p].fpid = Len(filepaths)
              /\ fp[1].is_managed_by_seishub
              /\ fp[1].size = len(rq[p].data)
              /\ fp[1].filepath \in DOMAIN fs
              /\ fs[fp[1].filepath] = rq[p].data
              /\ Len(md) = Len(st)
              /\ \A k \in DOMAIN st :
                    /\ md[k].filepath_id = rq[p].fpid
                    /\ md[k].starttime = st[k].start
                    /\ md[k].endtime = st[k].end
                    /\ md[k].channel_id \in DOMAIN channels
                    /\ channels[md[k].channel_id].location = st[k].loc
                    /\ channels[md[k].channel_id].channel = st[k].cha
                    /\ channels[md[k].channel_id].station_id
                          \in StationRows(st[k].net, st[k].sta)
                    /\ Cardinality(StationRows(st[k].net, st[k].sta)) = 1

\* A file of two stations has been uploaded after other files.
C21_Witness ==
    \E p \in procs :
        /\ StationUploaded(p)
        /\ rq[p].data = 11
        /\ Len(filepaths) > 1
        /\ Len(stations) = 2


\* Slot p's request passed the tests made before the file is parsed: the
\* event, the index_file path, the checksum.
ReachedReaders(p) ==
    /\ ~WithoutEvent(p)
    /\ ~IndexFileMissing(p)
    /\ \A i \in DOMAIN snap[p].filepaths :
          snap[p].filepaths[i].md5_hash # md5(rq[p].data)

\* No reader of the endpoint of slot p's request reads its content.
Unparsable(p) ==
    IF rq[p].ep = "station"
    THEN read_SEED(rq[p].data) = Unreadable
         /\ read_RESP(rq[p].data) = Unreadable
    ELSE read(rq[p].data) = Unreadable

\* C22: a station upload that neither the SEED nor the RESP reader reads, and
\* a waveform upload the waveform reader does not read, end with
\* InvalidObjectError with every file and row as on arrival; an upload one
\* of the readers reads does not end with InvalidObjectError.
C22_UnparsableRejected ==
    \A p \in procs :
        Done(p) /\ ReachedReaders(p)
        => IF Unparsable(p)
           THEN /\ rq[p].out = "InvalidObjectError"
                /\ fs = snap[p].fs
                /\ tables = TablesOf(snap[p])
           ELSE rq[p].out # "InvalidObjectError"

\* A waveform file was posted to the station endpoint, or bytes no reader
\* understands to the waveform endpoint, with rows already stored.
C22_Witness ==
    \E p \in procs :
        /\ Done(p) /\ ReachedReaders(p) /\ Unparsable(p)
        /\ Len(filepaths) > 0
        /\ \/ rq[p].ep = "station" /\ read(rq[p].data) # Unreadable
           \/ rq[p].ep = "waveform" /\ rq[p].data = 8


\* C23: the uploads call add_or_update_channel with force_update = False, so
\* a coordinate field of a station row that holds a value, zero included,
\* keeps it in every step; with force_update = True a value that is not None
\* replaces whatever is stored.
C23_StoredCoordinateKept ==
    /\ [][\A i \in DOMAIN stations : \A f \in CoordFields :
             stations[i][f] # None => stations'[i][f] = stations[i][f]]_vars
    /\ [](\A stored \in {None, 0, 5} : \A value \in {0, 9} :
             Updated(stored, value, TRUE) = value)



\* ------------------------------------------------- _read_RESP, line by line
\* A line of a RESP file: the blockette field it starts with and its last
\* word (line.split()[-1]).
Line(code, word) == [code |-> code, word |-> word]

\* _parse_time_string: "No Ending Time" arrives as the word "Time".
parse_time_string(datetime_string) ==
    CASE datetime_string = "Time" -> None
      [] datetime_string = "2003,002" -> 2
      [] datetime_string = "2003,003" -> 3
      [] OTHER -> 4

\* The six current_* variables; Absent and None stand for Python's None.
NoFields ==
    [network |-> Absent, station |-> Absent, location |-> Absent,
     channel |-> Absent, startdate |-> None, enddate |-> None]

\* As Reset, the statement left out.
NotReset(cur) == cur

\* "Set to None again to start the next round."
Reset(cur) == NoFields

\* As Kept, the test "if not channel in channels" left out.
KeptAlways(chans, channel) == Append(chans, channel)

\* "if not channel in channels: channels.append(channel)"
Kept(chans, channel) ==
    IF In(channel, chans) THEN chans ELSE Append(chans, channel)

\* All of network, station, location, channel and start date are not None.
Complete(cur) ==
    /\ cur.network # Absent /\ cur.station # Absent
    /\ cur.location # Absent /\ cur.channel # Absent
    /\ cur.startdate # None

\* The dictionary _read_RESP builds from the current_* variables.
ChannelOf(cur) ==
    Entry(cur.network, cur.station, cur.location, cur.channel,
          cur.startdate, cur.enddate, None, None, None, None)

\* One pass of "for line in string_io" on the scanner state s = (cur, chans).
ScanStep(s, line) ==
    CASE line.code = "B050F03" -> [s EXCEPT !.cur.station = line.word]
      [] line.code = "B050F16" -> [s EXCEPT !.cur.network = line.word]
      [] line.code = "B052F03" ->
            [s EXCEPT !.cur.location = IF line.word = "??" THEN ""
                                       ELSE line.word]
      [] line.code = "B052F04" -> [s EXCEPT !.cur.channel = line.word]
      [] line.code = "B052F22" ->
            [s EXCEPT !.cur.startdate = parse_time_string(line.word)]
      [] line.code = "B052F23" ->
            LET cur == [s.cur EXCEPT !.enddate = parse_time_string(line.word)]
            IN [cur |-> Reset(cur),
                chans |-> IF Complete(cur) THEN Kept(s.chans, ChannelOf(cur))
                          ELSE s.chans]
      [] OTHER -> s

RECURSIVE Scanned(_)
\* The scanner state after the lines of the file.
Scanned(lines) ==
    IF lines = << >> THEN [cur |-> NoFields, chans |-> << >>]
    ELSE ScanStep(Scanned(SubSeq(lines, 1, Len(lines) - 1)),
                  lines[Len(lines)])

\* "if len(channels) == 0: return False" / "return channels"
Returned(chans) == IF Len(chans) = 0 THEN Unreadable ELSE chans

\* _read_RESP as a function of the lines of the file.
read_RESP_lines(lines) == Returned(Scanned(lines).chans)


\* The pieces the RESP files are made of: two channel blocks, a block
\* without its network line, a block whose start date is "No Starting
\* Time", and a network line on its own.
Pieces ==
    { << Line("B050F03", "ST1"), Line("B050F16", "N1"),
         Line("B052F03", "00"), Line("B052F04", "BHZ"),
         Line("B052F22", "2003,002"), Line("B052F23", "2003,003") >>,
      << Line("B053F03", "A"), Line("B050F03", "ST1"),
         Line("B050F16", "N1"), Line("B052F03", "??"),
         Line("B052F04", "BHE"), Line("B052F22", "2003,002"),
         Line("B052F23", "Time") >>,
      << Line("B050F03", "ST2"), Line("B052F03", "??"),
         Line("B052F04", "BHN"), Line("B052F22", "2003,003"),
         Line("B052F23", "Time") >>,
      << Line("B050F03", "ST1"), Line("B050F16", "N1"),
         Line("B052F03", "00"), Line("B052F04", "BHN"),
         Line("B052F22", "Time"), Line("B052F23", "2003,003") >>,
      << Line("B050F16", "N2") >> }

RECURSIVE Joined(_)
\* The pieces one after the other.
Joined(pieces) ==
    IF pieces = << >> THEN << >> ELSE Head(pieces) \o Joined(Tail(pieces))

\* The RESP files the scanner is given.
RespFiles ==
    {Joined(ps) : ps \in UNION {[1..n -> Pieces] : n \in 0..MaxBlocks}}

\* The scanner at the start of file f.
Scanning(f) ==
    [pc |-> "scan", ep |-> "station", lines |-> f, pos |-> 0,
     cur |-> NoFields, chans |-> << >>, out |-> Unreadable]

\* One pass of the loop "for line in string_io".
ScanLine(p) ==
    /\ rq[p].pc = "scan"
    /\ rq[p].pos < Len(rq[p].lines)
    /\ LET s == ScanStep([cur |-> rq[p].cur, chans |-> rq[p].chans],
                         rq[p].lines[rq[p].pos + 1])
       IN rq' = [rq EXCEPT ![p].pos = @ + 1, ![p].cur = s.cur,
                           ![p].chans = s.chans]
    /\ UNCHANGED <<events, fs, tables, procs, snap, uploaded, nreq, nwrites>>

\* The end of the file: _read_RESP returns.
ReturnChannels(p) ==
    /\ rq[p].pc = "scan"
    /\ rq[p].pos = Len(rq[p].lines)
    /\ rq' = [rq EXCEPT ![p].pc = "done", ![p].out = Returned(rq[p].chans)]
    /\ UNCHANGED <<events, fs, tables, procs, snap, uploaded, nreq, nwrites>>

\* A station upload inside _read_RESP, the file any of RespFiles.
InitRESP ==
    /\ events = {}
    /\ fs = [q \in {} |-> 0]
    /\ stations = << >>
    /\ channels = << >>
    /\ filepaths = << >>
    /\ metadata = << >>
    /\ waveforms = << >>
    /\ procs = {1}
    /\ \E f \in RespFiles : rq = [p \in {1} |-> Scanning(f)]
    /\ snap = [p \in {1} |->
                 [events |-> {}, fs |-> [q \in {} |-> 0], stations |-> << >>,
                  channels |-> << >>, filepaths |-> << >>,
                  metadata |-> << >>, waveforms |-> << >>]]
    /\ uploaded = {}
    /\ nreq = 0
    /\ nwrites = 0

NextRESP ==
    \/ \E p \in procs : ScanLine(p)
    \/ \E p \in procs : ReturnChannels(p)

SpecRESP == InitRESP /\ [][NextRESP]_vars


\* The positions of the end-date lines (B052F23) among lines.
EndLines(lines) == {e \in DOMAIN lines : lines[e].code = "B052F23"}

\* The block of the line at position e: the positions after the previous
\* end-date line up to e.
BlockOf(lines, e) ==
    {i \in 1..e : \A h \in EndLines(lines) : h < e => h < i}

\* The positions in the block of e that hold a line of the field code.
FieldLines(lines, e, code) ==
    {i \in BlockOf(lines, e) : lines[i].code = code}

\* The last word read for the field code in the block of e.
LastWord(lines, e, code) ==
    LET at == FieldLines(lines, e, code)
    IN lines[CHOOSE i \in at : \A j \in at : j <= i].word

\* Every field a channel needs has a line in the block of e.
AllRead(lines, e) ==
    \A code \in {"B050F03", "B050F16", "B052F03", "B052F04", "B052F22"} :
        FieldLines(lines, e, code) # {}

\* The channel the block that ends at e describes.
BlockChannel(lines, e) ==
    Entry(LastWord(lines, e, "B050F16"), LastWord(lines, e, "B050F03"),
          IF LastWord(lines, e, "B052F03") = "??" THEN ""
          ELSE LastWord(lines, e, "B052F03"),
          LastWord(lines, e, "B052F04"),
          parse_time_string(LastWord(lines, e, "B052F22")),
          parse_time_string(LastWord(lines, e, "B052F23")),
          None, None, None, None)

\* The end-date lines whose block describes a channel with a start date.
ChannelBlocks(lines) ==
    {e \in EndLines(lines) :
        AllRead(lines, e) /\ BlockChannel(lines, e).start # None}

RECURSIVE Doubled(_)
\* The file with every block written twice.
Doubled(lines) ==
    IF EndLines(lines) = {} THEN lines
    ELSE LET e == CHOOSE i \in EndLines(lines) :
                     \A j \in EndLines(lines) : i <= j
         IN SubSeq(lines, 1, e) \o SubSeq(lines, 1, e)
            \o Doubled(SubSeq(lines, e + 1, Len(lines)))

\* The position of the first block of lines that describes channel c.
FirstBlock(lines, c) ==
    CHOOSE e \in ChannelBlocks(lines) :
        /\ BlockChannel(lines, e) = c
        /\ \A h \in ChannelBlocks(lines) :
              BlockChannel(lines, h) = c => e <= h

\* C24: the list _read_RESP returns holds every channel its file describes
\* once, in the order of the first blocks of the channels, and the file with
\* every block written twice gives the same list.
C24_IdenticalBlocksOnce ==
    \A p \in procs :
        Done(p)
        => LET f == rq[p].lines
               out == rq[p].out
           IN /\ \A i, j \in DOMAIN out : out[i] = out[j] => i = j
              /\ {out[i] : i \in DOMAIN out}
                    = {BlockChannel(f, e) : e \in ChannelBlocks(f)}
              /\ \A i, j \in DOMAIN out :
                    i < j => FirstBlock(f, out[i]) < FirstBlock(f, out[j])
              /\ read_RESP_lines(f) = out
              /\ read_RESP_lines(Doubled(f)) = out

\* A file with the same channel block twice and another channel was read.
C24_Witness ==
    \E p \in procs :
        /\ Done(p)
        /\ Len(rq[p].out) = 2
        /\ Cardinality(ChannelBlocks(rq[p].lines)) = 3

\* C25: a pass of the loop adds a channel only at an end-date line whose
\* block holds a line of each of network, station, location, channel and
\* start date, and the channel has the last values of that block; after an
\* end-date line all six fields are None; no channel is ever taken back, and
\* the result is False exactly when the list of channels is empty.
C25_EmitsOnlyCompleteBlocks ==
    /\ [][\A p \in procs :
             LET f == rq[p].lines
                 e == rq'[p].pos
             IN /\ IsPrefix(rq[p].chans, rq'[p].chans)
                /\ rq'[p].chans # rq[p].chans
                   => /\ e \in EndLines(f)
                      /\ AllRead(f, e)
                      /\ rq'[p].chans
                            = Append(rq[p].chans, BlockChannel(f, e))
                /\ e # rq[p].pos /\ e \in EndLines(f)
                   => rq'[p].cur = NoFields]_vars
    /\ [](\A p \in procs :
             Done(p) => (rq[p].out = Unreadable <=> rq[p].chans = << >>))

\* A complete block was emitted, and a later block without its network line
\* was passed over although a network had been read before.
C25_Witness ==
    \E p \in procs :
        /\ Done(p)
        /\ rq[p].out # Unreadable
        /\ \E e \in EndLines(rq[p].lines) :
              /\ ~AllRead(rq[p].lines, e)
              /\ \E h \in ChannelBlocks(rq[p].lines) : h < e


\* The file of the managed FilePath row i is on disk with the content whose
\* checksum the row holds.
FileIntact(i) ==
    /\ filepaths[i].filepath \in DOMAIN fs
    /\ md5(fs[filepaths[i].filepath]) = filepaths[i].md5_hash

\* C26: a step of a request leaves the file of every committed managed
\* FilePath row of another request as it is: on disk, with the same bytes.
C26_FileOfOtherRequestKept ==
    [][\A i \in DOMAIN filepaths :
          /\ filepaths[i].is_managed_by_seishub
          /\ FileIntact(i)
          /\ \A q \in procs : rq[q].fpid = i => rq'[q] = rq[q]
          => /\ filepaths[i].filepath \in DOMAIN fs'
             /\ fs'[filepaths[i].filepath] = fs[filepaths[i].filepath]]_vars


\* C27: when no request is in flight, every managed FilePath row names a
\* file on disk whose content has the checksum and the size of the row, and
\* downloadFile with the id of the row returns that content.
C27_ManagedRowHasItsFile ==
    Quiet
    => \A i \in DOMAIN filepaths :
          filepaths[i].is_managed_by_seishub
          => /\ FileIntact(i)
             /\ len(fs[filepaths[i].filepath]) = filepaths[i].size
             /\ downloadFile_GET(i)
                   = Response("ok", ContentOf(filepaths[i].md5_hash))


\* The channel rows of station row i.
ChannelsOf(i) == {c \in DOMAIN channels : channels[c].station_id = i}

\* C28: getDetails with the network and station of any Station row answers
\* with one entry per channel row of that station, each with the start time
\* and the end time of a metadata row of its channel.
C28_DetailsOfEveryStation ==
    \A i \in DOMAIN stations :
        LET r == getDetails_GET(stations[i].network, stations[i].station)
        IN /\ r.status = "ok"
           /\ Len(r.data) = Cardinality(ChannelsOf(i))
           /\ \A c \in ChannelsOf(i) :
                 \E k \in DOMAIN r.data : \E m \in DOMAIN metadata :
                    /\ r.data[k].channel_code = channels[c].channel
                    /\ r.data[k].location_code = channels[c].location
                    /\ metadata[m].channel_id = c
                    /\ r.data[k].starttime = metadata[m].starttime
                    /\ r.data[k].endtime = metadata[m].endtime


\* The tags of the waveform rows of the tables s that are bound to event e
\* and stored under the network, station, location and channel of trace c.
StoredTags(s, c, e) ==
    {s.waveforms[i].tag : i \in
        {w \in DOMAIN s.waveforms :
            /\ s.waveforms[w].event_resource_id = e
            /\ s.channels[s.waveforms[w].channel_id].location = c.loc
            /\ s.channels[s.waveforms[w].channel_id].channel = c.cha
            /\ s.stations[s.channels[s.waveforms[w].channel_id].station_id]
                  .network = c.net
            /\ s.stations[s.channels[s.waveforms[w].channel_id].station_id]
                  .station = c.sta}}

\* C29: a waveform upload whose tag is already stored for its event under
\* the codes of its first trace, empty codes included, is rejected with
\* InvalidParameterError.
C29_TagCheckedUnderStoredKey ==
    \A p \in procs :
        /\ Done(p) /\ rq[p].ep = "waveform"
        /\ ReachedReaders(p) /\ ~Unparsable(p)
        /\ rq[p].tag \in StoredTags(snap[p], read(rq[p].data)[1], rq[p].event)
        => rq[p].out = "InvalidParameterError"

====
